---- MODULE Spec2Model ----
(***************************************************************************)
(* The two HTTP record clients of the accounting frontend:                 *)
(* DatabaseRecordClient (result wrappers) and APIClient (null/empty        *)
(* sentinels).  One call is followed from its invocation through its two   *)
(* suspension points (session lookup, HTTP request) and the reading of the *)
(* response body to the value it returns or the exception it throws.       *)
(***************************************************************************)
EXTENDS Integers, Sequences, FiniteSets, TLC

VARIABLES
    client,     \* class whose method is running: "DatabaseRecordClient" | "APIClient"
    call,       \* the running method and its arguments
    pc,         \* position of the running call
    session,    \* what getSession() resolved with
    token,      \* local `token`
    request,    \* the request handed to the global fetch()
    network,    \* the global fetch(): "idle", "pending", "rejected" or "resolved"
    response,   \* the Response the global fetch() resolved with
    outcome,    \* how the call ended: pending, returned value, or thrown error
    log,        \* console.error output of the running call
    events,     \* asynchronous steps of the running call, in order
    calls       \* number of calls completed so far

vars == <<client, call, pc, session, token, request, network, response,
          outcome, log, events, calls>>

----------------------------------------------------------------------------
(* Bounds of the explored inputs *)

MaxId == 2
MaxPage == 2
MaxResults == 2
MaxCalls == 2

----------------------------------------------------------------------------
(* JavaScript values *)

Undefined == [t |-> "undefined"]
Null == [t |-> "null"]
Str(s) == [t |-> "string", v |-> s]
Arr(a) == [t |-> "array", v |-> a]
Obj(f) == [t |-> "object", v |-> f]

\* o.name on an object: undefined when the property is absent
Prop(o, name) == IF name \in DOMAIN o.v THEN o.v[name] ELSE Undefined

\* truthiness, as used by `if (x)` and `!x`
Truthy(x) ==
    CASE x.t = "undefined" -> FALSE
      [] x.t = "null" -> FALSE
      [] x.t = "string" -> x.v # ""
      [] OTHER -> TRUE

\* x == null / x != null (loose): undefined and null are both nullish
Nullish(x) == x.t \in {"undefined", "null"}

Throw(e) == [kind |-> "throw", error |-> e]
Return(v) == [kind |-> "return", value |-> v]
Pending == [kind |-> "pending"]

----------------------------------------------------------------------------
(* The environment: configuration, sessions, records, responses *)

Domain == "https://backend"
\* getEndpoint() of the concrete subclass
getEndpoint == "/expenses/"

NoSession == Null
Sessions == {NoSession, [t |-> "session", user |-> [token |-> "abc123"]]}

Names == {"rent"}
\* records the caller passes in (id 0 is a record not yet stored)
Records == [id : 0..MaxId, name : Names]
\* raw records the server sends
RawRecords == [id : 1..MaxId, name : Names]

SortBys == {[field |-> "date", dir |-> "desc"], [field |-> "amount", dir |-> "asc"]}
Pages == 1..MaxPage

Statuses == {200, 201, 204, 404, 500}

Empty == <<>>
DetailOpts == {Empty, [detail |-> Str("")], [detail |-> Str("Not found.")]}
DetailsOpts == {Empty, [details |-> Arr(<<>>)], [details |-> Arr(<<"Invalid name", "Invalid date">>)]}
LinkOpts(f) == {Empty, f :> Null, f :> Str("https://backend/?page=1")}
\* the lists a page can hold: up to MaxResults records, no record twice
RawLists ==
    {l \in UNION {[1..n -> RawRecords] : n \in 0..MaxResults} :
        \A i, j \in DOMAIN l : i # j => l[i] # l[j]}
ResultsOpts == {Empty} \cup {[results |-> Arr(l)] : l \in RawLists}

ErrorObjects == {d @@ ds : d \in DetailOpts, ds \in DetailsOpts}
ListObjects == {r @@ p @@ n : r \in ResultsOpts, p \in LinkOpts("previous"), n \in LinkOpts("next")}
RecordObjects == RawRecords

\* a body is text that is not JSON (an HTML error page, an empty body) or JSON text
Bodies == {[kind |-> "text"], [kind |-> "json", value |-> Null]}
            \cup {[kind |-> "json", value |-> Obj(o)] : o \in ErrorObjects \cup ListObjects \cup RecordObjects}

Responses == [status : Statuses, body : Bodies]

NoRequest == [t |-> "none"]
NoResponse == [t |-> "none"]
NoCall == [op |-> "none"]
Unset == [t |-> "unset"]

----------------------------------------------------------------------------
(* Collaborators whose code lives outside the two client classes *)

\* abstract parse(record): the subclass converts the raw value to a T
parse(raw) == [type |-> "T", from |-> raw]

\* SortBy.getDirectionAsString()
getDirectionAsString(sortBy) == sortBy.dir

\* JSON.stringify(record) of a record {id, name}
JSONstringify(record) ==
    "{\"id\":" \o ToString(record.id) \o ",\"name\":\"" \o record.name \o "\"}"

\* new URLSearchParams({sortField, sortDir, page}).toString()
URLSearchParams(sortField, sortDir, page) ==
    "sortField=" \o sortField \o "&sortDir=" \o sortDir \o "&page=" \o page

\* MultiRecordResult / SingleRecordResult factories
MultiRecordResult_asErrorResult(status, error) ==
    [wrapper |-> "MultiRecordResult", isError |-> TRUE, status |-> status, errorMessage |-> error]

MultiRecordResult_asSuccessResult(status, records, page, hasPreviousPage, hasNextPage) ==
    [wrapper |-> "MultiRecordResult", isError |-> FALSE, status |-> status, records |-> records,
     page |-> page, hasPreviousPage |-> hasPreviousPage, hasNextPage |-> hasNextPage]

SingleRecordResult_asErrorResult(status, error) ==
    [wrapper |-> "SingleRecordResult", isError |-> TRUE, status |-> status, errorMessage |-> error]

SingleRecordResult_asSuccessResult(status, record) ==
    [wrapper |-> "SingleRecordResult", isError |-> FALSE, status |-> status, record |-> record]

\* response.ok
ok(resp) == resp.status >= 200 /\ resp.status <= 299

----------------------------------------------------------------------------
(* getAccessToken, identical in both classes *)

\* variant: the token is read through optional chaining and an absent session
\* gives the text "undefined"
getAccessToken_token_optionalChaining(s) == IF ~Truthy(s) THEN "undefined" ELSE s.user.token

getAccessToken_token(s) == IF ~Truthy(s) THEN "" ELSE s.user.token
getAccessToken_log(s) == IF ~Truthy(s) THEN <<"Could not get session">> ELSE <<>>

----------------------------------------------------------------------------
(* DatabaseRecordClient *)

DRC_fetch_url(sortBy, page) ==
    Domain \o getEndpoint \o "?" \o URLSearchParams(sortBy.field, getDirectionAsString(sortBy), ToString(page))

DRC_get_url(id) == Domain \o getEndpoint \o ToString(id) \o "/"

DRC_post_url == Domain \o getEndpoint

\* variant: put targets the collection, without the record's id
DRC_put_url_noId(record) == Domain \o getEndpoint

DRC_put_url(record) == Domain \o getEndpoint \o ToString(record.id) \o "/"

DRC_delete_url(id) == Domain \o getEndpoint \o ToString(id) \o "/"

\* the (url, init) pair each method hands to fetch()
DRC_fetch_request(sortBy, page, tok) ==
    [url |-> DRC_fetch_url(sortBy, page), method |-> "GET",
     headers |-> [Authorization |-> "Token " \o tok], cache |-> "no-store"]

DRC_get_request(id, tok) ==
    [url |-> DRC_get_url(id), method |-> "GET",
     headers |-> [Authorization |-> "Token " \o tok], cache |-> "no-store"]

DRC_submit_request(record, url, method, tok) ==
    [url |-> url, method |-> method,
     headers |-> [ContentType |-> "application/json", Authorization |-> "Token " \o tok],
     body |-> JSONstringify(record)]

DRC_delete_request(id, tok) ==
    [url |-> DRC_delete_url(id), method |-> "DELETE",
     headers |-> [Authorization |-> "Token " \o tok]]

DRC_request_of(c, tok) ==
    CASE c.op = "fetch" -> DRC_fetch_request(c.sortBy, c.page, tok)
      [] c.op = "get" -> DRC_get_request(c.id, tok)
      [] c.op \in {"post", "put"} -> DRC_submit_request(c.record, c.url, c.method, tok)
      [] c.op = "delete" -> DRC_delete_request(c.id, tok)

\* the catch block around fetch() of each method
DRC_fetch_catch == Return(MultiRecordResult_asErrorResult(503, "Could not connect to the API"))

DRC_get_catch == Return(SingleRecordResult_asErrorResult(503, "Could not connect to the API"))

DRC_submit_catch == Return(SingleRecordResult_asErrorResult(503, "Could not connect to API"))

DRC_delete_catch == Return(Null)

DRC_catch(c) ==
    CASE c.op = "fetch" -> DRC_fetch_catch
      [] c.op = "get" -> DRC_get_catch
      [] c.op \in {"post", "put"} -> DRC_submit_catch
      [] c.op = "delete" -> DRC_delete_catch

\* error message of fetch and submit: detail, else details[0], else "Unknown error"
DRC_error(json) ==
    IF Truthy(Prop(json, "detail")) THEN Prop(json, "detail").v
    ELSE IF Prop(json, "details").t = "array" /\ Len(Prop(json, "details").v) > 0
         THEN Prop(json, "details").v[1]
    ELSE "Unknown error"

\* error message of get: json.detail ?? "Unknown error"
DRC_get_error(json) ==
    IF Nullish(Prop(json, "detail")) THEN "Unknown error" ELSE Prop(json, "detail").v

\* the loop of fetch over json.results
RECURSIVE parseAll(_)
parseAll(results) ==
    IF results = <<>> THEN <<>> ELSE <<parse(Head(results))>> \o parseAll(Tail(results))

\* variant: the two page flags are taken from the wrong link fields
DRC_fetch_complete_swappedLinks(page, resp) ==
    IF resp.body.kind # "json" THEN Throw("SyntaxError")
    ELSE LET json == resp.body.value IN
         IF json.t = "null" THEN Throw("TypeError")
         ELSE IF resp.status # 200
              THEN Return(MultiRecordResult_asErrorResult(resp.status, DRC_error(json)))
         ELSE IF Prop(json, "results").t # "array" THEN Throw("TypeError")
         ELSE Return(MultiRecordResult_asSuccessResult(
                        resp.status, parseAll(Prop(json, "results").v), page,
                        ~Nullish(Prop(json, "next")), ~Nullish(Prop(json, "previous"))))

\* fetch, from `await response.json()` to its return
DRC_fetch_complete(page, resp) ==
    IF resp.body.kind # "json" THEN Throw("SyntaxError")
    ELSE LET json == resp.body.value IN
         IF json.t = "null" THEN Throw("TypeError")
         ELSE IF resp.status # 200
              THEN Return(MultiRecordResult_asErrorResult(resp.status, DRC_error(json)))
         ELSE IF Prop(json, "results").t # "array" THEN Throw("TypeError")
         ELSE Return(MultiRecordResult_asSuccessResult(
                        resp.status, parseAll(Prop(json, "results").v), page,
                        ~Nullish(Prop(json, "previous")), ~Nullish(Prop(json, "next"))))

\* get, from `await response.json()` to its return
DRC_get_complete(resp) ==
    IF resp.body.kind # "json" THEN Throw("SyntaxError")
    ELSE LET json == resp.body.value IN
         IF resp.status # 200
         THEN IF json.t = "null" THEN Throw("TypeError")
              ELSE Return(SingleRecordResult_asErrorResult(resp.status, DRC_get_error(json)))
         ELSE Return(SingleRecordResult_asSuccessResult(resp.status, parse(json)))

\* submit, from `await response.json()` to its return
DRC_submit_complete(resp) ==
    IF resp.body.kind # "json" THEN Throw("SyntaxError")
    ELSE LET json == resp.body.value IN
         IF resp.status # 200 /\ resp.status # 201
         THEN IF json.t = "null" THEN Throw("TypeError")
              ELSE Return(SingleRecordResult_asErrorResult(resp.status, DRC_error(json)))
         ELSE Return(SingleRecordResult_asSuccessResult(resp.status, parse(json)))

\* variant: delete gives null for a response that is not ok
DRC_delete_complete_nullOnFailure(resp) == IF ok(resp) THEN Return(resp) ELSE Return(Null)

\* delete, after fetch() resolved: the response itself
DRC_delete_complete(resp) == Return(resp)

DRC_complete(c, resp) ==
    CASE c.op = "fetch" -> DRC_fetch_complete(c.page, resp)
      [] c.op = "get" -> DRC_get_complete(resp)
      [] c.op \in {"post", "put"} -> DRC_submit_complete(resp)

----------------------------------------------------------------------------
(* APIClient *)

API_fetch_url == Domain \o getEndpoint

API_get_url(id) == Domain \o getEndpoint \o ToString(id) \o "/"

API_post_url == Domain \o getEndpoint

API_put_url(record) == Domain \o getEndpoint \o ToString(record.id) \o "/"

\* the (url, init) pair each method hands to fetch()
API_fetch_request(tok) ==
    [url |-> API_fetch_url, method |-> "GET",
     headers |-> [Authorization |-> "Token " \o tok], cache |-> "no-store"]

API_get_request(id, tok) ==
    [url |-> API_get_url(id), method |-> "GET",
     headers |-> [Authorization |-> "Token " \o tok], cache |-> "no-store"]

API_post_request(record, tok) ==
    [url |-> API_post_url, method |-> "POST",
     headers |-> [ContentType |-> "application/json", Authorization |-> "Token " \o tok],
     body |-> JSONstringify(record)]

API_put_request(record, tok) ==
    [url |-> API_put_url(record), method |-> "PUT",
     headers |-> [ContentType |-> "application/json", Authorization |-> "Token " \o tok],
     body |-> JSONstringify(record)]

API_request_of(c, tok) ==
    CASE c.op = "fetch" -> API_fetch_request(tok)
      [] c.op = "get" -> API_get_request(c.id, tok)
      [] c.op = "post" -> API_post_request(c.record, tok)
      [] c.op = "put" -> API_put_request(c.record, tok)

\* the value every method returns when it gives up
API_sentinel(c) == IF c.op = "fetch" THEN Arr(<<>>) ELSE Null

\* fetch, from `await response.json()` to its return
API_fetch_complete(resp) ==
    IF resp.body.kind # "json" THEN [outcome |-> Throw("SyntaxError"), log |-> <<>>]
    ELSE LET data == resp.body.value IN
         IF ~Truthy(data) THEN [outcome |-> Return(Arr(<<>>)), log |-> <<"Data was NULL">>]
         ELSE IF Truthy(Prop(data, "detail"))
              THEN [outcome |-> Return(Arr(<<>>)),
                    log |-> <<"data.detail: " \o Prop(data, "detail").v>>]
         ELSE IF ~Truthy(Prop(data, "results"))
              THEN [outcome |-> Return(Arr(<<>>)), log |-> <<"No results">>]
         ELSE [outcome |-> Return(Arr(parseAll(Prop(data, "results").v))), log |-> <<>>]

\* get, from `await response.json()` to its return
API_get_complete(resp) ==
    IF resp.body.kind # "json" THEN [outcome |-> Throw("SyntaxError"), log |-> <<>>]
    ELSE LET data == resp.body.value IN
         IF ~Truthy(data) THEN [outcome |-> Return(Null), log |-> <<"Data was NULL">>]
         ELSE [outcome |-> Return(parse(data)), log |-> <<>>]

\* post and put, from `await response.json()` to their return
API_write_complete(resp) ==
    IF resp.body.kind # "json" THEN [outcome |-> Throw("SyntaxError"), log |-> <<>>]
    ELSE LET data == resp.body.value IN
         IF ~Truthy(data) THEN [outcome |-> Return(Null), log |-> <<"Data was NULL">>]
         ELSE [outcome |-> Return(data), log |-> <<>>]

API_complete(c, resp) ==
    CASE c.op = "fetch" -> API_fetch_complete(resp)
      [] c.op = "get" -> API_get_complete(resp)
      [] c.op \in {"post", "put"} -> API_write_complete(resp)

----------------------------------------------------------------------------
(* Actions of a DatabaseRecordClient call *)

DRC_fetch(sortBy, page) ==
    /\ pc = "idle" /\ calls < MaxCalls
    /\ client' = "DatabaseRecordClient"
    /\ call' = [op |-> "fetch", sortBy |-> sortBy, page |-> page]
    /\ pc' = "getSession"
    /\ events' = <<"getSession">>
    /\ UNCHANGED <<session, token, request, network, response, outcome, log, calls>>

DRC_get(id) ==
    /\ pc = "idle" /\ calls < MaxCalls
    /\ client' = "DatabaseRecordClient"
    /\ call' = [op |-> "get", id |-> id]
    /\ pc' = "getSession"
    /\ events' = <<"getSession">>
    /\ UNCHANGED <<session, token, request, network, response, outcome, log, calls>>

\* post computes its url and enters submit
DRC_post(record) ==
    /\ pc = "idle" /\ calls < MaxCalls
    /\ client' = "DatabaseRecordClient"
    /\ call' = [op |-> "post", record |-> record, url |-> DRC_post_url, method |-> "POST"]
    /\ pc' = "getSession"
    /\ events' = <<"getSession">>
    /\ UNCHANGED <<session, token, request, network, response, outcome, log, calls>>

\* put computes its url and enters submit
DRC_put(record) ==
    /\ pc = "idle" /\ calls < MaxCalls
    /\ client' = "DatabaseRecordClient"
    /\ call' = [op |-> "put", record |-> record, url |-> DRC_put_url(record), method |-> "PUT"]
    /\ pc' = "getSession"
    /\ events' = <<"getSession">>
    /\ UNCHANGED <<session, token, request, network, response, outcome, log, calls>>

DRC_delete(id) ==
    /\ pc = "idle" /\ calls < MaxCalls
    /\ client' = "DatabaseRecordClient"
    /\ call' = [op |-> "delete", id |-> id]
    /\ pc' = "getSession"
    /\ events' = <<"getSession">>
    /\ UNCHANGED <<session, token, request, network, response, outcome, log, calls>>

\* getSession() resolves and getAccessToken returns
DRC_getAccessToken(s) ==
    /\ client = "DatabaseRecordClient"
    /\ pc = "getSession"
    /\ session' = s
    /\ token' = getAccessToken_token(s)
    /\ log' = log \o getAccessToken_log(s)
    /\ events' = Append(events, "token")
    /\ pc' = "request"
    /\ UNCHANGED <<client, call, request, network, response, outcome, calls>>

\* the method builds its request and calls fetch()
DRC_request ==
    /\ client = "DatabaseRecordClient"
    /\ pc = "request"
    /\ request' = DRC_request_of(call, token)
    /\ network' = "pending"
    /\ events' = Append(events, "fetch")
    /\ pc' = "fetching"
    /\ UNCHANGED <<client, call, session, token, response, outcome, log, calls>>

\* variant: a rejected fetch() is attempted again instead of being reported
DRC_fetchRejects_retry ==
    /\ client = "DatabaseRecordClient"
    /\ pc = "fetching"
    /\ network' = "rejected"
    /\ pc' = "request"
    /\ UNCHANGED <<client, call, session, token, request, response, outcome,
                   log, events, calls>>

\* fetch() rejects: the catch block returns
DRC_fetchRejects ==
    /\ client = "DatabaseRecordClient"
    /\ pc = "fetching"
    /\ network' = "rejected"
    /\ outcome' = DRC_catch(call)
    /\ pc' = "done"
    /\ UNCHANGED <<client, call, session, token, request, response, log, events, calls>>

\* fetch() resolves with a response: delete returns it, the others read its body
DRC_fetchResolves(resp) ==
    /\ client = "DatabaseRecordClient"
    /\ pc = "fetching"
    /\ network' = "resolved"
    /\ response' = resp
    /\ IF call.op = "delete"
       THEN /\ outcome' = DRC_delete_complete(resp)
            /\ pc' = "done"
            /\ events' = events
       ELSE /\ outcome' = outcome
            /\ pc' = "json"
            /\ events' = Append(events, "json")
    /\ UNCHANGED <<client, call, session, token, request, log, calls>>

\* response.json() settles and the method runs to its end
DRC_json ==
    /\ client = "DatabaseRecordClient"
    /\ pc = "json"
    /\ outcome' = DRC_complete(call, response)
    /\ pc' = "done"
    /\ UNCHANGED <<client, call, session, token, request, network, response,
                   log, events, calls>>

----------------------------------------------------------------------------
(* Actions of an APIClient call *)

API_fetch ==
    /\ pc = "idle" /\ calls < MaxCalls
    /\ client' = "APIClient"
    /\ call' = [op |-> "fetch"]
    /\ pc' = "getSession"
    /\ events' = <<"getSession">>
    /\ UNCHANGED <<session, token, request, network, response, outcome, log, calls>>

API_get(id) ==
    /\ pc = "idle" /\ calls < MaxCalls
    /\ client' = "APIClient"
    /\ call' = [op |-> "get", id |-> id]
    /\ pc' = "getSession"
    /\ events' = <<"getSession">>
    /\ UNCHANGED <<session, token, request, network, response, outcome, log, calls>>

API_post(record) ==
    /\ pc = "idle" /\ calls < MaxCalls
    /\ client' = "APIClient"
    /\ call' = [op |-> "post", record |-> record]
    /\ pc' = "getSession"
    /\ events' = <<"getSession">>
    /\ UNCHANGED <<session, token, request, network, response, outcome, log, calls>>

API_put(record) ==
    /\ pc = "idle" /\ calls < MaxCalls
    /\ client' = "APIClient"
    /\ call' = [op |-> "put", record |-> record]
    /\ pc' = "getSession"
    /\ events' = <<"getSession">>
    /\ UNCHANGED <<session, token, request, network, response, outcome, log, calls>>

\* getSession() resolves and getAccessToken returns
API_getAccessToken(s) ==
    /\ client = "APIClient"
    /\ pc = "getSession"
    /\ session' = s
    /\ token' = getAccessToken_token(s)
    /\ log' = log \o getAccessToken_log(s)
    /\ events' = Append(events, "token")
    /\ pc' = "request"
    /\ UNCHANGED <<client, call, request, network, response, outcome, calls>>

\* the method builds its request and calls fetch()
API_request ==
    /\ client = "APIClient"
    /\ pc = "request"
    /\ request' = API_request_of(call, token)
    /\ network' = "pending"
    /\ events' = Append(events, "fetch")
    /\ pc' = "fetching"
    /\ UNCHANGED <<client, call, session, token, response, outcome, log, calls>>

\* fetch() rejects: nothing catches the rejection
API_fetchRejects ==
    /\ client = "APIClient"
    /\ pc = "fetching"
    /\ network' = "rejected"
    /\ outcome' = Throw("TypeError")
    /\ pc' = "done"
    /\ UNCHANGED <<client, call, session, token, request, response, log, events, calls>>

\* fetch() resolves: a response that is not ok ends the call, any other has its body read
API_fetchResolves(resp) ==
    /\ client = "APIClient"
    /\ pc = "fetching"
    /\ network' = "resolved"
    /\ response' = resp
    /\ IF ~ok(resp)
       THEN /\ log' = Append(log, "Response not OK")
            /\ outcome' = Return(API_sentinel(call))
            /\ pc' = "done"
            /\ events' = events
       ELSE /\ log' = log
            /\ outcome' = outcome
            /\ pc' = "json"
            /\ events' = Append(events, "json")
    /\ UNCHANGED <<client, call, session, token, request, calls>>

\* response.json() settles and the method runs to its end
API_json ==
    /\ client = "APIClient"
    /\ pc = "json"
    /\ outcome' = API_complete(call, response).outcome
    /\ log' = log \o API_complete(call, response).log
    /\ pc' = "done"
    /\ UNCHANGED <<client, call, session, token, request, network, response,
                   events, calls>>

----------------------------------------------------------------------------

\* the caller takes the outcome; the client keeps nothing of the call
Finish ==
    /\ pc = "done"
    /\ pc' = "idle"
    /\ client' = "none"
    /\ call' = NoCall
    /\ session' = Unset
    /\ token' = ""
    /\ request' = NoRequest
    /\ network' = "idle"
    /\ response' = NoResponse
    /\ outcome' = Pending
    /\ log' = <<>>
    /\ events' = <<>>
    /\ calls' = calls + 1

Init ==
    /\ client = "none"
    /\ call = NoCall
    /\ pc = "idle"
    /\ session = Unset
    /\ token = ""
    /\ request = NoRequest
    /\ network = "idle"
    /\ response = NoResponse
    /\ outcome = Pending
    /\ log = <<>>
    /\ events = <<>>
    /\ calls = 0

Next ==
    \/ \E s \in SortBys, p \in Pages : DRC_fetch(s, p)
    \/ \E id \in 1..MaxId : DRC_get(id)
    \/ \E r \in Records : DRC_post(r)
    \/ \E r \in Records : DRC_put(r)
    \/ \E id \in 1..MaxId : DRC_delete(id)
    \/ \E s \in Sessions : DRC_getAccessToken(s)
    \/ DRC_request
    \/ DRC_fetchRejects
    \/ \E resp \in Responses : DRC_fetchResolves(resp)
    \/ DRC_json
    \/ API_fetch
    \/ \E id \in 1..MaxId : API_get(id)
    \/ \E r \in Records : API_post(r)
    \/ \E r \in Records : API_put(r)
    \/ \E s \in Sessions : API_getAccessToken(s)
    \/ API_request
    \/ API_fetchRejects
    \/ \E resp \in Responses : API_fetchResolves(resp)
    \/ API_json
    \/ Finish

Spec == Init /\ [][Next]_vars

----------------------------------------------------------------------------
(* Vocabulary of the properties *)

DRC_done == client = "DatabaseRecordClient" /\ pc = "done"
API_done == client = "APIClient" /\ pc = "done"
Wrapped == {"fetch", "get", "post", "put"}

\* the call ended by returning a result wrapper
ReturnedWrapper ==
    /\ outcome.kind = "return"
    /\ outcome.value.wrapper \in {"MultiRecordResult", "SingleRecordResult"}

ReturnedFailure == outcome.kind = "return" /\ outcome.value.isError
ReturnedSuccess == outcome.kind = "return" /\ ~outcome.value.isError

\* statuses each method takes for success
SuccessStatuses(op) == IF op \in {"post", "put"} THEN {200, 201} ELSE {200}

\* the message fetch returns when the network fails
ConnectivityMessage == "Could not connect to the API"

\* the message a failure body stands for: detail if present, else details[0] if
\* details is present and non-empty, else the generic fallback
GenericMessage == "Unknown error"
MessageOf(body) ==
    IF body.kind # "json" \/ body.value.t # "object" THEN GenericMessage
    ELSE IF "detail" \in DOMAIN body.value.v THEN body.value.v["detail"].v
    ELSE IF "details" \in DOMAIN body.value.v /\ Len(body.value.v["details"].v) > 0
         THEN body.value.v["details"].v[1]
    ELSE GenericMessage

----------------------------------------------------------------------------
(* Properties *)

\* C1: when the HTTP call of fetch, get, post or put fails at network level, the
\* call returns a failure result with status 503 and with one and the same
\* connectivity message, whichever of the four methods ran.
C1_NetworkFailure503SameMessage ==
    (DRC_done /\ call.op \in Wrapped /\ network = "rejected")
        => /\ ReturnedFailure
           /\ outcome.value.status = 503
           /\ outcome.value.errorMessage = ConnectivityMessage

\* C2: when the server answers fetch, get, post or put with a failure status, the
\* returned failure result carries the response's status and the message
\* detail, else details[0], else the generic fallback, for all four methods.
C2_ErrorMessagePrecedence ==
    (DRC_done /\ call.op \in Wrapped /\ network = "resolved"
              /\ response.status \notin SuccessStatuses(call.op))
        => /\ ReturnedFailure
           /\ outcome.value.status = response.status
           /\ outcome.value.errorMessage = MessageOf(response.body)

\* C3: no call of fetch, get, post or put ends by throwing: whatever the session,
\* the network and the response, the call returns a result wrapper.
C3_NeverThrows ==
    (DRC_done /\ call.op \in Wrapped) => ReturnedWrapper

\* C5: every APIClient method returns a value (parsed value or sentinel) and never
\* ends by throwing, also when the HTTP call fails at network level.
C5_APINeverThrows ==
    API_done => outcome.kind = "return"

\* C10: once the HTTP call has completed, post and put return a success result
\* exactly when the status is 200 or 201, fetch and get exactly when it is 200,
\* and every other status yields a failure result carrying that status.
C10_SuccessStatuses ==
    (DRC_done /\ call.op \in Wrapped /\ network = "resolved")
        => IF response.status \in SuccessStatuses(call.op)
           THEN ReturnedSuccess
           ELSE ReturnedFailure /\ outcome.value.status = response.status

\* how a call ends, given only the method, the network and the response
OutcomeOf(cl, c, net, resp) ==
    IF cl = "DatabaseRecordClient"
    THEN IF net = "rejected" THEN DRC_catch(c)
         ELSE IF c.op = "delete" THEN Return(resp)
         ELSE DRC_complete(c, resp)
    ELSE IF net = "rejected" THEN Throw("TypeError")
         ELSE IF ~ok(resp) THEN Return(API_sentinel(c))
         ELSE API_complete(c, resp).outcome

Count(e) == Cardinality({i \in DOMAIN events : events[i] = e})

\* C4: a successful fetch(sortBy, page) has hasPreviousPage true exactly when the
\* response's `previous` is non-null, hasNextPage true exactly when `next` is
\* non-null, page equal to the page argument, and one parsed record per entry
\* of `results`, in the same order.
C4_FetchSuccessFields ==
    (DRC_done /\ call.op = "fetch" /\ ReturnedSuccess)
        => LET json == response.body.value.v
               result == outcome.value
           IN /\ result.hasPreviousPage
                    = ("previous" \in DOMAIN json /\ json["previous"].t # "null")
              /\ result.hasNextPage
                    = ("next" \in DOMAIN json /\ json["next"].t # "null")
              /\ result.page = call.page
              /\ Len(result.records) = Len(json["results"].v)
              /\ \A i \in 1..Len(result.records) :
                    result.records[i] = parse(json["results"].v[i])

\* C4 witness: page 2 of a list with a previous and no next page, two different records
C4_Witness ==
    /\ DRC_done /\ call.op = "fetch" /\ ReturnedSuccess
    /\ call.page = 2
    /\ Prop(response.body.value, "previous").t = "string"
    /\ Prop(response.body.value, "next").t = "null"
    /\ outcome.value.hasPreviousPage /\ ~outcome.value.hasNextPage
    /\ Len(outcome.value.records) = 2
    /\ outcome.value.records[1] # outcome.value.records[2]

\* C6: without a session getAccessToken gives the empty string and logs an error;
\* the calling method still issues its request, with Authorization "Token "
\* and the empty token, and ends as the network and the response decide.
C6_NoSessionStillRequests ==
    (client # "none" /\ session = NoSession)
        => /\ token = ""
           /\ log # <<>> /\ Head(log) = "Could not get session"
           /\ pc \in {"fetching", "json", "done"}
                => (request # NoRequest /\ request.headers.Authorization = "Token ")
           /\ pc = "done"
                => (Count("fetch") = 1 /\ outcome = OutcomeOf(client, call, network, response))

\* C6 witness: a call without a session whose request went out and succeeded
C6_Witness ==
    /\ DRC_done /\ session = NoSession
    /\ network = "resolved"
    /\ request.headers.Authorization = "Token "
    /\ call.op \in Wrapped /\ ReturnedSuccess

\* C7: a DatabaseRecordClient call looks the token up exactly once and then makes
\* at most one HTTP request, after the lookup has completed; a failed request
\* is not repeated and the failure is returned right after the one attempt.
C7_OneLookupThenOneRequest ==
    client = "DatabaseRecordClient"
        => /\ Count("getSession") = 1 /\ events[1] = "getSession"
           /\ Count("token") <= 1 /\ Count("fetch") <= 1
           /\ \A i \in DOMAIN events :
                 events[i] = "fetch" => (i = 3 /\ events[2] = "token")
           /\ pc = "done" => (Count("token") = 1 /\ Count("fetch") = 1)
           /\ network = "rejected"
                => (pc = "done" /\ outcome # Pending
                      /\ events = <<"getSession", "token", "fetch">>)

\* C7 witness: a second call whose request failed at network level
C7_Witness ==
    /\ DRC_done /\ calls = 1
    /\ network = "rejected"
    /\ events = <<"getSession", "token", "fetch">>

\* C8: put(record) issues its request with method PUT to
\* {domain}{endpoint}{record.id}/ with the record as JSON body, whatever the
\* session and the response.
C8_PutTarget ==
    (client = "DatabaseRecordClient" /\ call.op = "put" /\ pc \in {"fetching", "json", "done"})
        => /\ request.method = "PUT"
           /\ request.url = Domain \o getEndpoint \o ToString(call.record.id) \o "/"
           /\ request.body = JSONstringify(call.record)
           /\ request.headers.ContentType = "application/json"

\* C8 witness: put of record 2 without a session, answered with a failure status
C8_Witness ==
    /\ DRC_done /\ call.op = "put" /\ call.record.id = 2
    /\ session = NoSession
    /\ network = "resolved" /\ response.status = 500
    /\ request.method = "PUT"
    /\ request.url = "https://backend/expenses/2/"
    /\ request.body = "{\"id\":2,\"name\":\"rent\"}"

\* C9: delete(id) returns null exactly when the DELETE request fails at network
\* level and otherwise the response itself, whatever its status.
C9_DeleteRawResponse ==
    (DRC_done /\ call.op = "delete")
        => /\ outcome.kind = "return"
           /\ (outcome.value = Null) <=> (network = "rejected")
           /\ network = "resolved" => outcome.value = response

\* C9 witness: a delete answered with status 500 returns that response
C9_Witness ==
    /\ DRC_done /\ call.op = "delete"
    /\ network = "resolved" /\ response.status = 500
    /\ outcome.value = response

====
